---- MODULE Spec2Model ----
(***************************************************************************)
(* laspec/binning.py: flux-conserving rebinning of a 1-D spectrum.         *)
(*                                                                         *)
(* rebin() is a pure function of its arguments.  The model draws the       *)
(* arguments in Init and applies rebin() in one action.  Floating point    *)
(* numbers are modelled as exact rationals plus NaN, so the properties     *)
(* below are the exact-arithmetic versions of the "within tolerance"       *)
(* statements.  Every call supplies wave_new: the default grid of          *)
(* wave_log10 (logarithms) is outside the model.                           *)
(***************************************************************************)
EXTENDS Integers, Sequences, FiniteSets

\* ------------------------------------------------------------------ bounds
\* wavelengths of the enumerated grids are the integers 0..MaxWave
MaxWave == 4
\* the enumerated old grids have 2..MaxN pixels
MaxN == 4
\* the enumerated new grids have 2..MaxM pixels
MaxM == 2

\* ------------------------------------------------------- numbers (float)
\* A number is NaN or an exact rational n/d in lowest terms with d > 0.
Abs(i) == IF i < 0 THEN -i ELSE i

RECURSIVE GCD(_, _)
GCD(a, b) == IF b = 0 THEN a ELSE GCD(b, a % b)

NaN == [nan |-> TRUE, n |-> 0, d |-> 1]

Rat(n, d) ==
    LET g == GCD(Abs(n), Abs(d))
        s == IF d < 0 THEN -1 ELSE 1
    IN  [nan |-> FALSE, n |-> (s * n) \div g, d |-> (s * d) \div g]

Num(i) == [nan |-> FALSE, n |-> i, d |-> 1]

Half == Rat(1, 2)

Add(a, b) == IF a.nan \/ b.nan THEN NaN ELSE Rat(a.n * b.d + b.n * a.d, a.d * b.d)

Sub(a, b) == IF a.nan \/ b.nan THEN NaN ELSE Rat(a.n * b.d - b.n * a.d, a.d * b.d)

Mul(a, b) == IF a.nan \/ b.nan THEN NaN ELSE Rat(a.n * b.n, a.d * b.d)

\* 0/0 is NaN; x/0 (an infinity) does not arise for strictly increasing nodes
Div(a, b) == IF a.nan \/ b.nan \/ b.n = 0 THEN NaN ELSE Rat(a.n * b.d, a.d * b.n)

\* comparisons with NaN are false
Lt(a, b) == ~a.nan /\ ~b.nan /\ a.n * b.d < b.n * a.d

Le(a, b) == ~a.nan /\ ~b.nan /\ a.n * b.d <= b.n * a.d

\* np.floor(x) of a number that is not NaN, as an integer
Floor(a) == a.n \div a.d

\* np.sqrt: the root is represented by its radicand (sqrt is injective on the
\* non-negative numbers); the root of NaN or of a negative number is NaN
Sqrt(a) == IF a.nan \/ a.n < 0 THEN [nan |-> TRUE, sq |-> NaN]
           ELSE [nan |-> FALSE, sq |-> a]

\* np.square
Square(a) == Mul(a, a)

\* ------------------------------------------------------- optional arguments
None == [some |-> FALSE, arr |-> <<>>]

Some(a) == [some |-> TRUE, arr |-> a]

\* ------------------------------------------------------------------- arrays
\* an array is a sequence (indices from 1); Array(f) is f with every element
\* computed once
Array(f) == SubSeq(f, 1, Len(f))

\* ------------------------------------------------------------- center2edge
\* np.diff(x)
Diff(x) == Array([i \in 1..(Len(x) - 1) |-> Sub(x[i + 1], x[i])])

\* a slip in center2edge: the last edge extrapolated with the first gap
center2edgeFirstGap(x) ==
    LET n == Len(x)
        dx == Diff(x)
    IN  Array([i \in 1..(n + 1) |->
            IF i = 1 THEN Sub(x[1], Mul(Half, dx[1]))
            ELSE IF i = n + 1 THEN Add(x[n], Mul(Half, dx[1]))
            ELSE Add(x[i - 1], Mul(Half, dx[i - 1]))])

center2edge(x) ==
    LET n == Len(x)
        dx == Diff(x)
    IN  Array([i \in 1..(n + 1) |->
            IF i = 1 THEN Sub(x[1], Mul(Half, dx[1]))
            ELSE IF i = n + 1 THEN Add(x[n], Mul(Half, dx[n - 1]))
            ELSE Add(x[i - 1], Mul(Half, dx[i - 1]))])

\* ------------------------------------------------------------------ interp1d
\* a slip in the choice of nodes: every old edge, the last one included
InterpNodesAll(wave_edge) == wave_edge

\* the interpolation nodes: wave_edge[:-1], paired with np.arange(len(wave))
InterpNodes(wave_edge) == SubSeq(wave_edge, 1, Len(wave_edge) - 1)

\* interp1d(xs, arange(len(xs)), kind="linear", bounds_error=False)(x):
\* NaN outside [xs[0], xs[-1]], else searchsorted, clip to 1..len-1, and
\* slope * (x - x_lo) + y_lo
Interp(xs, x) ==
    LET n == Len(xs)
        k == Cardinality({j \in 1..n : Lt(xs[j], x)})
        idx == IF k < 1 THEN 1 ELSE IF k > n - 1 THEN n - 1 ELSE k
        slope == Div(Num(1), Sub(xs[idx + 1], xs[idx]))
    IN  IF Lt(x, xs[1]) \/ Lt(xs[n], x) THEN NaN
        ELSE Add(Mul(slope, Sub(x, xs[idx])), Num(idx - 1))

\* ------------------------------------------------------------ array access
\* arr[i] for a Python integer index: negative indices wrap around
IndexOk(arr, i) == -Len(arr) <= i /\ i < Len(arr)

Elem(arr, i) == IF i >= 0 THEN arr[i + 1] ELSE arr[Len(arr) + i + 1]

\* a slice bound as Python normalises it
SliceBound(arr, i) ==
    IF i < 0 THEN (IF i + Len(arr) < 0 THEN 0 ELSE i + Len(arr))
    ELSE IF i > Len(arr) THEN Len(arr) ELSE i

\* arr[a:b]
Slice(arr, a, b) == SubSeq(arr, SliceBound(arr, a) + 1, SliceBound(arr, b))

RECURSIVE SumSeq(_)
SumSeq(s) == IF Len(s) = 0 THEN Num(0) ELSE Add(s[1], SumSeq(Tail(s)))

AnySeq(s) == \E i \in 1..Len(s) : s[i]

\* -------------------------------------------------------------- grid mapping
\* the integer np.floor(NaN).astype(int) yields: the cast of NaN is undefined
\* and differs between builds (the most negative integer on x86, 0 on ARM);
\* -2147483647 stands for the most negative integer
NaNCast == {-2147483647, 0}

\* wave_new_edge_pos = I(wave_new_edge)
EdgePos(wave_edge, wave_new_edge) ==
    LET xs == InterpNodes(wave_edge)
    IN  Array([i \in 1..Len(wave_new_edge) |-> Interp(xs, wave_new_edge[i])])

\* wave_new_edge_pos2: one (lo, hi) pair per new pixel
EdgePos2(pos) == Array([i \in 1..(Len(pos) - 1) |-> <<pos[i], pos[i + 1]>>])

\* np.floor(x).astype(int)
FloorInt(x, nan_int) == IF x.nan THEN nan_int ELSE Floor(x)

\* wave_new_ipix
Ipix(pos2, nan_int) ==
    Array([i \in 1..Len(pos2) |->
        <<FloorInt(pos2[i][1], nan_int), FloorInt(pos2[i][2], nan_int)>>])

\* wave_new_frac = wave_new_edge_pos2 - wave_new_ipix
Frac(pos2, ipix) ==
    Array([i \in 1..Len(pos2) |->
        <<Sub(pos2[i][1], Num(ipix[i][1])), Sub(pos2[i][2], Num(ipix[i][2]))>>])

\* flags = np.any(np.isnan(wave_new_edge_pos2), axis=1)
Flags(pos2) == Array([i \in 1..Len(pos2) |-> pos2[i][1].nan \/ pos2[i][2].nan])

\* ------------------------------------------------------------ per-array work
\* a slip in the shape check: an array that is long enough passes
ShapeOkAtLeast(arr, w) == Len(arr) >= Len(w)

\* assert arr.shape == wave.shape
ShapeOk(arr, w) == Len(arr) = Len(w)

\* a slip in the loops: the flag is not consulted
UsePixelAlways(this_flag) == TRUE

\* "if not this_flag": the pixel is computed from the old array
UsePixel(this_flag) == ~this_flag

\* a slip in the sum: the bulk slice taken inclusive of hi, as the mask's is
PixelSumInclusive(arr, lo, hi, lo_frac, hi_frac) ==
    Add(Sub(SumSeq(Slice(arr, lo, hi + 1)), Mul(Elem(arr, lo), lo_frac)),
        Mul(Elem(arr, hi), hi_frac))

\* np.sum(a[lo:hi]) - a[lo] * lo_frac + a[hi] * hi_frac
PixelSum(arr, lo, hi, lo_frac, hi_frac) ==
    Add(Sub(SumSeq(Slice(arr, lo, hi)), Mul(Elem(arr, lo), lo_frac)),
        Mul(Elem(arr, hi), hi_frac))

\* np.any(mask[lo:hi + 1])
PixelMask(arr, lo, hi) == AnySeq(Slice(arr, lo, hi + 1))

\* the element indices the flux / flux_err loop reads
ElemReads(ipix, fl) ==
    {ipix[i][k] : i \in {j \in 1..Len(fl) : UsePixel(fl[j])}, k \in 1..2}

\* the slices [lo, hi) the flux / flux_err loop takes
SumSlices(ipix, fl) ==
    {<<ipix[i][1], ipix[i][2]>> : i \in {j \in 1..Len(fl) : UsePixel(fl[j])}}

\* the slices [lo, hi + 1) the mask loop takes
MaskSlices(ipix, fl) ==
    {<<ipix[i][1], ipix[i][2] + 1>> : i \in {j \in 1..Len(fl) : UsePixel(fl[j])}}

\* the loop over the new pixels for flux and for flux_err ** 2
RebinValues(arr, ipix, frac, fl) ==
    Array([i \in 1..Len(fl) |->
        IF UsePixel(fl[i])
        THEN PixelSum(arr, ipix[i][1], ipix[i][2], frac[i][1], frac[i][2])
        ELSE NaN])

\* the loop over the new pixels for mask; mask_new starts all False
RebinMask(arr, ipix, fl) ==
    Array([i \in 1..Len(fl) |->
        IF UsePixel(fl[i]) THEN PixelMask(arr, ipix[i][1], ipix[i][2]) ELSE FALSE])

\* one "if x is not None" block: what it raises ("" for nothing) and what it
\* appends to result
Block(kind, opt, w, ipix, frac, fl) ==
    IF ~opt.some THEN [raise |-> "", out |-> <<>>]
    ELSE IF ~ShapeOk(opt.arr, w) THEN [raise |-> "AssertionError", out |-> <<>>]
    ELSE IF kind = "mask"
         THEN [raise |-> "", out |-> <<[kind |-> kind, arr |-> RebinMask(opt.arr, ipix, fl)]>>]
    ELSE IF \E r \in ElemReads(ipix, fl) : ~IndexOk(opt.arr, r)
         THEN [raise |-> "IndexError", out |-> <<>>]
    ELSE IF kind = "flux"
         THEN [raise |-> "", out |-> <<[kind |-> kind, arr |-> RebinValues(opt.arr, ipix, frac, fl)]>>]
    ELSE [raise |-> "",
          out |-> <<[kind |-> kind,
                     arr |-> LET sq == Array([i \in 1..Len(opt.arr) |-> Square(opt.arr[i])])
                                 v == RebinValues(sq, ipix, frac, fl)
                             IN  Array([i \in 1..Len(v) |-> Sqrt(v[i])])]>>]

\* the blocks run in the order flux, flux_err, mask; the first exception ends
\* the call
FirstRaise(bf, be, bm) ==
    IF bf.raise # "" THEN bf.raise ELSE IF be.raise # "" THEN be.raise ELSE bm.raise

\* a slip in the order of the appends: mask before flux_err
ResultListMaskFirst(bf, be, bm) == bf.out \o bm.out \o be.out

\* result, as the appends build it
ResultList(bf, be, bm) == bf.out \o be.out \o bm.out

\* ------------------------------------------------------------------- state
VARIABLES
    wave, flux, flux_err, mask, wave_new,   \* the arguments of the call
    pc,                                     \* "call", then "done" or "error"
    wave_edge, wave_new_edge,               \* locals of rebin, kept for inspection
    wave_new_edge_pos, wave_new_ipix, wave_new_frac, flags,
    returned,                               \* the returned list; None if none
    error,                                  \* the exception raised; "" if none
    reads, slices                           \* indices and slices used on old arrays

vars == <<wave, flux, flux_err, mask, wave_new, pc, wave_edge, wave_new_edge,
          wave_new_edge_pos, wave_new_ipix, wave_new_frac, flags, returned,
          error, reads, slices>>

\* ------------------------------------------------------- enumerated arguments
Nums(s) == Array([i \in 1..Len(s) |-> Num(s[i])])

StrictlyIncreasing(s) == \A i \in 1..(Len(s) - 1) : Lt(s[i], s[i + 1])

IntSeqs(lo, hi) == UNION {[1..n -> 0..MaxWave] : n \in lo..hi}

\* old grids: strictly increasing, 2..MaxN pixels
OldGrids == {Nums(s) : s \in {t \in IntSeqs(2, MaxN) : \A i \in 1..(Len(t) - 1) : t[i] < t[i + 1]}}

\* new grids: any sequence of 2..MaxM centers
NewGrids == {Nums(s) : s \in IntSeqs(2, MaxM)}

IncreasingNewGrids == {g \in NewGrids : StrictlyIncreasing(g)}

Const(n, v) == Array([i \in 1..n |-> v])

\* every old grid with every new grid, all three arrays supplied
GridCalls ==
    {[wave |-> w, wave_new |-> wn,
      flux |-> Some([i \in 1..Len(w) |-> Num(i)]),
      flux_err |-> Some([i \in 1..Len(w) |-> Num(i)]),
      mask |-> Some([i \in 1..Len(w) |-> i = Len(w)])] :
        w \in OldGrids, wn \in NewGrids}

\* every old grid with every increasing new grid and every array of ones and
\* twos; the error is the flux, a pixel is masked where the flux is 2
DataCalls ==
    UNION {{[wave |-> w, wave_new |-> wn,
             flux |-> Some(Nums(a)), flux_err |-> Some(Nums(a)),
             mask |-> Some([i \in 1..Len(a) |-> a[i] = 2])] :
                a \in [1..Len(w) -> {1, 2}], wn \in IncreasingNewGrids} :
           w \in OldGrids}

\* an argument that is absent, well-shaped, one too short or one too long
ShapeChoices(n, v) == {None, Some(Const(n, v)), Some(Const(n - 1, v)), Some(Const(n + 1, v))}

\* every old grid onto itself and onto a two-pixel grid, with every
\* combination of absent, well-shaped and ill-shaped arrays
ShapeCalls ==
    UNION {{[wave |-> w, wave_new |-> wn, flux |-> f, flux_err |-> e, mask |-> m] :
                wn \in {w, Nums(<<0, MaxWave>>)},
                f \in ShapeChoices(Len(w), Num(1)),
                e \in ShapeChoices(Len(w), Num(1)),
                m \in ShapeChoices(Len(w), FALSE)} :
           w \in OldGrids}

\* the call of _test(): np.arange(10), np.ones(10), np.arange(0, 10, 2) + 0.5
TestCall ==
    [wave |-> [i \in 1..10 |-> Num(i - 1)],
     wave_new |-> [i \in 1..5 |-> Rat(4 * (i - 1) + 1, 2)],
     flux |-> Some(Const(10, Num(1))), flux_err |-> None, mask |-> None]

Calls == GridCalls \cup DataCalls \cup ShapeCalls \cup {TestCall}

\* ----------------------------------------------------------------- behaviour
Init ==
    /\ \E c \in Calls :
        /\ wave = c.wave
        /\ wave_new = c.wave_new
        /\ flux = c.flux
        /\ flux_err = c.flux_err
        /\ mask = c.mask
    /\ pc = "call"
    /\ wave_edge = <<>>
    /\ wave_new_edge = <<>>
    /\ wave_new_edge_pos = <<>>
    /\ wave_new_ipix = <<>>
    /\ wave_new_frac = <<>>
    /\ flags = <<>>
    /\ returned = None
    /\ error = ""
    /\ reads = {}
    /\ slices = {}

\* rebin(wave, flux, flux_err, mask, wave_new) with wave_new given: its locals,
\* what it raises and what it returns
rebin(w, f, e, m, wn, nan_int) ==
    LET we == center2edge(w)
        wne == center2edge(wn)
        pos == EdgePos(we, wne)
        pos2 == EdgePos2(pos)
        ipix == Ipix(pos2, nan_int)
        frac == Frac(pos2, ipix)
        fl == Flags(pos2)
        bf == Block("flux", f, w, ipix, frac, fl)
        be == IF bf.raise = "" THEN Block("flux_err", e, w, ipix, frac, fl)
              ELSE [raise |-> "", out |-> <<>>]
        bm == IF bf.raise = "" /\ be.raise = "" THEN Block("mask", m, w, ipix, frac, fl)
              ELSE [raise |-> "", out |-> <<>>]
        raised == FirstRaise(bf, be, bm)
        summed == Len(bf.out) + Len(be.out) > 0
    IN  [wave_edge |-> we, wave_new_edge |-> wne, wave_new_edge_pos |-> pos,
         wave_new_ipix |-> ipix, wave_new_frac |-> frac, flags |-> fl,
         raised |-> raised,
         returned |-> IF raised = "" THEN Some(ResultList(bf, be, bm)) ELSE None,
         reads |-> IF summed \/ bf.raise = "IndexError" \/ be.raise = "IndexError"
                   THEN ElemReads(ipix, fl) ELSE {},
         slices |-> (IF summed THEN SumSlices(ipix, fl) ELSE {})
                    \cup (IF Len(bm.out) > 0 THEN MaskSlices(ipix, fl) ELSE {})]

\* the call ends: a list is returned, or an exception leaves the caller
\* without one
Finish(r) ==
    /\ wave_edge' = r.wave_edge
    /\ wave_new_edge' = r.wave_new_edge
    /\ wave_new_edge_pos' = r.wave_new_edge_pos
    /\ wave_new_ipix' = r.wave_new_ipix
    /\ wave_new_frac' = r.wave_new_frac
    /\ flags' = r.flags
    /\ error' = r.raised
    /\ pc' = IF r.raised = "" THEN "done" ELSE "error"
    /\ returned' = r.returned
    /\ reads' = r.reads
    /\ slices' = r.slices

Rebin ==
    /\ pc = "call"
    /\ \E nan_int \in NaNCast : Finish(rebin(wave, flux, flux_err, mask, wave_new, nan_int))
    /\ UNCHANGED <<wave, flux, flux_err, mask, wave_new>>

Next == Rebin

Spec == Init /\ [][Next]_vars

\* ------------------------------------------------------ reference notions
\* the place of the array of one kind in the returned list
OutIdx(kind) == CHOOSE k \in 1..Len(returned.arr) : returned.arr[k].kind = kind

\* the returned array of one kind
Out(kind) == returned.arr[OutIdx(kind)].arr

MinV(a, b) == IF Le(a, b) THEN a ELSE b

MaxV(a, b) == IF Le(a, b) THEN b ELSE a

\* the length of the part of old pixel j, [we[j], we[j+1]], inside [a, b]
Overlap(we, j, a, b) ==
    LET l == MaxV(a, we[j])
        h == MinV(b, we[j + 1])
    IN  IF Lt(l, h) THEN Sub(h, l) ELSE Num(0)

\* the sum over the old pixels 1..j of f[j] times the fraction of pixel j's
\* span that [a, b] overlaps
RECURSIVE RefSum(_, _, _, _, _)
RefSum(f, we, a, b, j) ==
    IF j = 0 THEN Num(0)
    ELSE Add(RefSum(f, we, a, b, j - 1),
             Mul(f[j], Div(Overlap(we, j, a, b), Sub(we[j + 1], we[j]))))

\* x lies outside [old_edge[0], old_edge[N-1]], the first N old edges
Outside(we, x) == Lt(x, we[1]) \/ Lt(we[Len(we) - 1], x)

\* new pixel i has an edge outside [old_edge[0], old_edge[N-1]]
PixelOutside(we, wne, i) == Outside(we, wne[i]) \/ Outside(we, wne[i + 1])

\* the kinds of the supplied arrays, in the order flux, flux_err, mask
Supplied ==
    (IF flux.some THEN <<"flux">> ELSE <<>>)
    \o (IF flux_err.some THEN <<"flux_err">> ELSE <<>>)
    \o (IF mask.some THEN <<"mask">> ELSE <<>>)

\* some supplied array is not as long as wave
IllShaped ==
    \/ flux.some /\ Len(flux.arr) # Len(wave)
    \/ flux_err.some /\ Len(flux_err.arr) # Len(wave)
    \/ mask.some /\ Len(mask.arr) # Len(wave)

\* e is the edge grid the centers c ask for
EdgesOk(c, e) ==
    LET n == Len(c)
    IN  /\ Len(e) = n + 1
        /\ \A i \in 1..n : Lt(e[i], e[i + 1]) /\ Le(e[i], c[i]) /\ Le(c[i], e[i + 1])
        /\ \A i \in 2..n : Add(e[i], e[i]) = Add(c[i - 1], c[i])
        /\ e[1] = Sub(c[1], Div(Sub(c[2], c[1]), Num(2)))
        /\ e[n + 1] = Add(c[n], Div(Sub(c[n], c[n - 1]), Num(2)))

\* every computed pixel of out holds the overlap-weighted sum of f
WeightOk(f, we, wne, fl, out) ==
    \A i \in 1..Len(fl) :
        (~fl[i] /\ Le(wne[i], wne[i + 1]))
            => out[i] = RefSum(f, we, wne[i], wne[i + 1], Len(f))

\* the mask of every new pixel is the OR of the masks of the old pixels that
\* its span overlaps
MaskOk(m, we, wne, out) ==
    \A i \in 1..Len(out) :
        out[i] = (\E j \in 1..Len(m) : m[j] /\ Overlap(we, j, wne[i], wne[i + 1]).n > 0)

\* flux and mask of every new pixel follow its coverage, and so does the
\* flux_err of every pixel that ordered(i) admits
CoverageOk(we, wne, ordered(_)) ==
    \A i \in 1..(Len(wne) - 1) :
        /\ flux.some => (Out("flux")[i].nan <=> PixelOutside(we, wne, i))
        /\ (flux_err.some /\ ordered(i))
               => (Out("flux_err")[i].nan <=> PixelOutside(we, wne, i))
        /\ (mask.some /\ PixelOutside(we, wne, i)) => ~Out("mask")[i]

\* the lower edge of new pixel i is not above its upper edge
EdgesOrdered(i) == Le(wave_new_edge[i], wave_new_edge[i + 1])

AnyPixel(i) == TRUE

\* ------------------------------------------------------------------- claims
\* C1: the call of _test (wave 0..9, ten ones, wave_new 0.5, 2.5, ..., 8.5)
\* returns the flux [2, 2, 2, 2, 2].
C1_TestResult ==
    (pc = "done" /\ wave = TestCall.wave /\ wave_new = TestCall.wave_new
        /\ flux = TestCall.flux)
        => Out("flux") = Const(5, Num(2))

\* C2: rebinning onto the old grid itself returns the old flux at every index,
\* the first and the last included.
C2_Identity ==
    (pc = "done" /\ flux.some /\ wave_new = wave)
        => \A i \in 1..Len(wave) : Out("flux")[i] = flux.arr[i]

\* C3: a flux of ones on a strictly increasing new grid whose edges all lie in
\* [old_edge[0], old_edge[N]] has no NaN pixel and adds up to the width of the
\* new grid in old-pixel widths.
C3_Conservation ==
    (/\ pc = "done"
     /\ flux.some
     /\ flux.arr = Const(Len(wave), Num(1))
     /\ StrictlyIncreasing(wave_new)
     /\ \A i \in 1..Len(wave_new_edge) :
            Le(wave_edge[1], wave_new_edge[i])
            /\ Le(wave_new_edge[i], wave_edge[Len(wave_edge)]))
        => /\ \A i \in 1..Len(wave_new) : ~Out("flux")[i].nan
           /\ SumSeq(Out("flux"))
                = RefSum(flux.arr, wave_edge, wave_new_edge[1],
                         wave_new_edge[Len(wave_new_edge)], Len(wave))

\* C4: the mask of every new pixel is true if an old pixel overlapping its span
\* is masked and false if none is.
C4_MaskMonotone ==
    (pc = "done" /\ mask.some /\ StrictlyIncreasing(wave_new))
        => MaskOk(mask.arr, wave_edge, wave_new_edge, Out("mask"))

\* C5: a call with an ill-shaped flux, flux_err or mask ends in the assertion's
\* error and returns nothing, whatever was rebinned before; a call whose
\* supplied arrays are all well-shaped raises no shape error.
C5_ShapeValidation ==
    pc # "call"
        => /\ IllShaped => (pc = "error" /\ error = "AssertionError" /\ ~returned.some)
           /\ ~IllShaped => error # "AssertionError"

\* an ill-shaped mask after a well-shaped flux and flux_err
C5_Witness ==
    /\ pc = "error"
    /\ flux.some /\ Len(flux.arr) = Len(wave)
    /\ flux_err.some /\ Len(flux_err.arr) = Len(wave)
    /\ mask.some /\ Len(mask.arr) # Len(wave)

\* C6 as stated: with well-shaped arrays no error is raised, and the flux and
\* flux_err of every new pixel are NaN exactly when one of its edges lies
\* outside [old_edge[0], old_edge[N-1]]; the mask of such a pixel is false.
C6_CoverageAnyPixel ==
    (pc # "call" /\ ~IllShaped)
        => pc = "done" /\ CoverageOk(wave_edge, wave_new_edge, AnyPixel)

\* C6 as amended: the same, with the flux_err part limited to the pixels
\* whose lower edge is not above their upper edge (every pixel of a strictly
\* increasing new grid).
C6_Coverage ==
    (pc # "call" /\ ~IllShaped)
        => pc = "done" /\ CoverageOk(wave_edge, wave_new_edge, EdgesOrdered)

\* all three arrays, a pixel whose upper edge lies in the last old pixel and a
\* pixel that is covered
C6_Witness ==
    /\ pc = "done"
    /\ flux.some /\ flux_err.some /\ mask.some
    /\ \E i \in 1..Len(wave_new) :
        /\ Lt(wave_edge[Len(wave)], wave_new_edge[i + 1])
        /\ Le(wave_new_edge[i + 1], wave_edge[Len(wave) + 1])
        /\ ~Outside(wave_edge, wave_new_edge[i])
        /\ Out("flux")[i].nan
    /\ \E i \in 1..Len(wave_new) : ~Out("flux")[i].nan /\ ~Out("flux_err")[i].nan

\* C7: center2edge of N >= 2 strictly increasing centers gives N+1 strictly
\* increasing edges that bracket the centers: midpoints inside, the outer two
\* half a gap beyond the outer centers.
C7_EdgeConverter ==
    pc # "call"
        => /\ EdgesOk(wave, wave_edge)
           /\ StrictlyIncreasing(wave_new) => EdgesOk(wave_new, wave_new_edge)

\* a grid whose first and last gaps differ
C7_Witness ==
    /\ pc # "call"
    /\ Len(wave) >= 3
    /\ Sub(wave[2], wave[1]) # Sub(wave[Len(wave)], wave[Len(wave) - 1])

\* C8: the returned list holds one array per supplied input, in the order flux,
\* flux_err, mask, each with len(wave_new) elements.
C8_OutputStructure ==
    pc = "done"
        => /\ returned.some
           /\ Len(returned.arr) = Len(Supplied)
           /\ \A k \in 1..Len(returned.arr) :
                /\ returned.arr[k].kind = Supplied[k]
                /\ Len(returned.arr[k].arr) = Len(wave_new)

\* flux omitted: flux_err comes first, and the new grid is not as long as the
\* old one
C8_Witness ==
    /\ pc = "done"
    /\ ~flux.some /\ flux_err.some /\ mask.some
    /\ Len(wave_new) # Len(wave)
    /\ returned.arr[1].kind = "flux_err"

\* C9: the flux of a computed pixel whose lower edge is not above its upper
\* edge is the sum over the old pixels of the old flux times the overlapped
\* fraction of the old pixel's span.
C9_FractionalWeighting ==
    (pc = "done" /\ flux.some)
        => WeightOk(flux.arr, wave_edge, wave_new_edge, flags, Out("flux"))

\* a pixel that starts inside one old pixel, covers another whole and ends
\* inside a third, on a non-uniform old grid with a non-constant flux
C9_Witness ==
    /\ pc = "done"
    /\ flux.some
    /\ \E i \in 1..Len(wave) : flux.arr[i] # flux.arr[1]
    /\ Sub(wave[2], wave[1]) # Sub(wave[Len(wave)], wave[Len(wave) - 1])
    /\ \E i \in 1..Len(wave_new) :
        /\ ~flags[i]
        /\ wave_new_ipix[i][2] >= wave_new_ipix[i][1] + 2
        /\ wave_new_frac[i][1].n # 0
        /\ wave_new_frac[i][2].n # 0

\* C10: the indices of a computed pixel lie in 0..N-1, every element read and
\* every slice stays inside the old arrays without wrapping around, and the
\* integer cast from a NaN position is never used as an index.
C10_IndexSafety ==
    pc # "call"
        => /\ \A i \in 1..Len(flags) :
                ~flags[i] => /\ wave_new_ipix[i][1] \in 0..(Len(wave) - 1)
                             /\ wave_new_ipix[i][2] \in 0..(Len(wave) - 1)
           /\ reads \subseteq 0..(Len(wave) - 1)
           /\ reads \subseteq {wave_new_ipix[i][k] :
                                   i \in {j \in 1..Len(flags) : ~flags[j]}, k \in 1..2}
           /\ \A sl \in slices : 0 <= sl[1] /\ sl[1] <= Len(wave)
                                 /\ 0 <= sl[2] /\ sl[2] <= Len(wave)
           /\ error # "IndexError"

\* a new grid that is not increasing, with a flagged pixel and a read of the
\* last old pixel
C10_Witness ==
    /\ pc = "done"
    /\ flux.some /\ mask.some
    /\ ~StrictlyIncreasing(wave_new)
    /\ \E i \in 1..Len(flags) : flags[i]
    /\ (Len(wave) - 1) \in reads

====
